---- MODULE Spec2Model ----
(***************************************************************************)
(* A model of app.py, the Global Economic Risk Monitor dashboard.          *)
(*                                                                         *)
(* The module-level code (read_csv, the global aggregates, the OLS         *)
(* trendline) runs once, statement by statement; afterwards the Dash       *)
(* callback update_dashboard runs once per browser event.                  *)
(*                                                                         *)
(* Numbers: TEIS is held in thousandths (0.5 is 500), GDP_growth_pct in    *)
(* tenths (2.0 is 20), opacities in tenths (0.6 is 6).  A float mean is    *)
(* the reduced fraction num/den, or NaN.                                   *)
(***************************************************************************)
EXTENDS Integers, Sequences, FiniteSets, TLC

\* ------------------------------------------------------------------ bounds
MaxRows == 2          \* rows of the csv file
MaxClicks == 1        \* presses of the reset button per page session
MaxHistoryRows == 1   \* rows of the csv file under SpecHistory

\* ---------------------------------------------------------------- csv input
Countries == {"A", "B"}
CountryOrder == <<"A", "B">>          \* lexicographic order of Countries
Locations == Countries                \* what a map click can carry; the table
                                      \* need not hold a row of that country
Years == {2020, 2021}
TEISVals == {500, 900}
Outcomes == { [fatalities |-> 10, GDP_growth_pct |-> 20],
              [fatalities |-> 100, GDP_growth_pct |-> -10] }

Records == { [Country |-> c, Year |-> y, TEIS |-> t,
              fatalities |-> o.fatalities, GDP_growth_pct |-> o.GDP_growth_pct] :
             c \in Countries, y \in Years, t \in TEISVals, o \in Outcomes }

AllColumns == {"Country", "Year", "TEIS", "fatalities", "GDP_growth_pct"}
ColumnSets == {AllColumns} \cup { AllColumns \ {c} : c \in AllColumns }

RowSeqs(n) == UNION { [1..k -> Records] : k \in 0..n }
Tables(n) == [columns : ColumnSets, rows : RowSeqs(n)]

\* The csv file is absent or unreadable.
NoFile == [columns |-> {"<unreadable>"}, rows |-> <<>>]

\* pd.DataFrame(): no columns, no rows.
EmptyDataFrame == [columns |-> {}, rows |-> <<>>]

\* --------------------------------------------------------------- arithmetic
RECURSIVE Gcd(_, _)
Gcd(a, b) == IF b = 0 THEN a ELSE Gcd(b, a % b)

NaN == [nan |-> TRUE, num |-> 0, den |-> 1]

\* The float s/n.
Frac(s, n) == LET g == Gcd(s, n) IN [nan |-> FALSE, num |-> s \div g, den |-> n \div g]

RECURSIVE SumSeq(_)
SumSeq(s) == IF s = <<>> THEN 0 ELSE Head(s) + SumSeq(Tail(s))

\* Series.sum(): 0 for an empty series.
SeriesSum(s) == SumSeq(s)

\* Series.mean(): NaN for an empty series.
SeriesMean(s) == IF Len(s) = 0 THEN NaN ELSE Frac(SumSeq(s), Len(s))

\* ---------------------------------------------------------------- DataFrame
HasColumn(d, c) == c \in d.columns

\* d[c] as a sequence of values, in row order.
Column(d, c) == [i \in 1..Len(d.rows) |-> d.rows[i][c]]

\* d[d[c] == v]: the rows that match, in row order.
Filter(d, c, v) ==
    [columns |-> d.columns, rows |-> SelectSeq(d.rows, LAMBDA r : r[c] = v)]

\* d.index[d[c] == v]: the positions that match (RangeIndex, 0-based in the
\* code, 1-based here).
MatchIndex(d, c, v) == { i \in 1..Len(d.rows) : d.rows[i][c] = v }

RECURSIVE SortedSeq(_)
SortedSeq(S) ==
    IF S = {} THEN <<>>
    ELSE LET m == CHOOSE x \in S : \A y \in S : x <= y
         IN  <<m>> \o SortedSeq(S \ {m})

\* The distinct values of a sequence, in order of first appearance.
RECURSIVE FirstSeen(_)
FirstSeen(s) ==
    IF s = <<>> THEN <<>>
    ELSE LET init == FirstSeen(SubSeq(s, 1, Len(s) - 1))
             last == s[Len(s)]
         IN  IF \E k \in 1..Len(init) : init[k] = last THEN init
             ELSE Append(init, last)

\* Mutation: groupby(..., sort=False), the groups in order of appearance.
GroupByYearUnsorted(d) ==
    LET keys == FirstSeen([i \in 1..Len(d.rows) |-> d.rows[i].Year])
    IN  [k \in 1..Len(keys) |->
            [Year |-> keys[k],
             TEIS |-> SeriesMean(Column([d EXCEPT !.rows =
                         SelectSeq(d.rows, LAMBDA r : r.Year = keys[k])], "TEIS")),
             fatalities |-> SeriesSum(Column([d EXCEPT !.rows =
                         SelectSeq(d.rows, LAMBDA r : r.Year = keys[k])], "fatalities"))]]

\* d.groupby("Year").agg(TEIS=mean, fatalities=sum).reset_index(): one row per
\* group key, keys sorted ascending.
GroupByYear(d) ==
    LET keys == SortedSeq({ d.rows[i].Year : i \in 1..Len(d.rows) })
        grp(y) == Filter(d, "Year", y)
    IN  [k \in 1..Len(keys) |->
            [Year |-> keys[k],
             TEIS |-> SeriesMean(Column(grp(keys[k]), "TEIS")),
             fatalities |-> SeriesSum(Column(grp(keys[k]), "fatalities"))]]

\* d.groupby("Country")["TEIS"].mean().reset_index(): keys sorted ascending.
GroupByCountry(d) ==
    LET present == { d.rows[i].Country : i \in 1..Len(d.rows) }
        keys == SelectSeq(CountryOrder, LAMBDA c : c \in present)
    IN  [k \in 1..Len(keys) |->
            [Country |-> keys[k],
             TEIS |-> SeriesMean(Column(Filter(d, "Country", keys[k]), "TEIS"))]]

\* -------------------------------------------------------------------- state
VARIABLES
    pc,                 \* "load", "precompute", "fit", "serve" or "aborted"
    file,               \* the csv file on disk
    df,
    global_fatalities,
    global_teisc,
    global_trend,
    trendline_trace,
    clickData,          \* the map-chart's clickData property
    n_clicks,           \* the reset button's n_clicks property
    triggered_id,       \* ctx.triggered_id of the last callback invocation
    out,                \* what the last callback invocation returned
    probe               \* one earlier invocation, remembered (SpecHistory)

vars == <<pc, file, df, global_fatalities, global_teisc, global_trend,
          trendline_trace, clickData, n_clicks, triggered_id, out, probe>>

startup == <<df, global_fatalities, global_teisc, global_trend, trendline_trace>>

\* ------------------------------------------------------- browser properties
\* clickData is None until the first click; afterwards it is the payload of
\* the last click, {"points": [{"location": ...}]}.
NoClick == [present |-> FALSE, points |-> <<>>]
ClickOn(c) == [present |-> TRUE, points |-> <<[hasLocation |-> TRUE, location |-> c]>>]

\* A payload whose first point carries no "location" key.
NoLocationClick ==
    [present |-> TRUE, points |-> <<[hasLocation |-> FALSE, location |-> ""]>>]

ClickPayloads == { ClickOn(c) : c \in Locations } \cup {NoLocationClick}

\* ------------------------------------------------------------ the callback
\* f"{n:,.0f}" of a non-negative integer: its digits in groups of three,
\* most significant group first ("1,234" is <<1, 234>>).
RECURSIVE FormatThousands(_)
FormatThousands(n) ==
    IF n < 1000 THEN <<n>> ELSE FormatThousands(n \div 1000) \o <<n % 1000>>

\* f"{x:.3f}" of a float held in thousandths: "nan", or x rounded to the
\* nearest thousandth (ties to even), as integer part and three decimals.
Format3f(x) ==
    IF x.nan THEN [text |-> "nan", int |-> 0, dec |-> 0]
    ELSE LET q == x.num \div x.den
             r == x.num % x.den
             up == (2 * r > x.den) \/ (2 * r = x.den /\ q % 2 = 1)
             m == IF up THEN q + 1 ELSE q
         IN  [text |-> "number", int |-> m \div 1000, dec |-> m % 1000]

\* Mutation: the trigger is not looked at.
IsDefaultIgnoringTrigger(cd, trig) == ~cd.present

\* not clickData or triggered_id == "btn-reset"
IsDefault(cd, trig) == (~cd.present) \/ trig = "btn-reset"

\* clickData["points"][0]["location"]
ClickLocation(cd) == cd.points[1].location

\* df[df["Country"] == selected_country]
DfFiltered(cd) == Filter(df, "Country", ClickLocation(cd))

SelectedCountry(cd, trig) ==
    IF IsDefault(cd, trig) THEN "Global View" ELSE ClickLocation(cd)

\* Mutation: no fallback when the selection matches no row.
TrendDfWithoutFallback(cd, trig) ==
    IF IsDefault(cd, trig) THEN global_trend ELSE GroupByYear(DfFiltered(cd))

TrendDf(cd, trig) ==
    IF IsDefault(cd, trig) THEN global_trend
    ELSE IF DfFiltered(cd).rows = <<>> THEN global_trend
         ELSE GroupByYear(DfFiltered(cd))

\* Mutation: the sum is taken over df, not df_filtered.
KpiFatOverAll(cd, trig) ==
    IF IsDefault(cd, trig) THEN global_fatalities
    ELSE SeriesSum(Column(df, "fatalities"))

KpiFat(cd, trig) ==
    IF IsDefault(cd, trig) THEN global_fatalities
    ELSE SeriesSum(Column(DfFiltered(cd), "fatalities"))

\* Mutation: the global mean only while there is no click data.
KpiTeisUnlessClicked(cd, trig) ==
    IF ~cd.present THEN global_teisc
    ELSE SeriesMean(Column(DfFiltered(cd), "TEIS"))

KpiTeis(cd, trig) ==
    IF IsDefault(cd, trig) THEN global_teisc
    ELSE SeriesMean(Column(DfFiltered(cd), "TEIS"))

\* Mutation: only the first matching row is recoloured.
ScatterColorsFirstMatch(cd, trig) ==
    IF IsDefault(cd, trig) THEN [i \in 1..Len(df.rows) |-> "steelblue"]
    ELSE LET m == MatchIndex(df, "Country", ClickLocation(cd))
         IN  [i \in 1..Len(df.rows) |->
                IF i \in m /\ \A j \in m : i <= j THEN "red" ELSE "lightgrey"]

\* Mutation: the colour list outlives the invocation, so that the rows
\* highlighted by the previous selection stay red.
ScatterColorsKept(cd, trig) ==
    IF IsDefault(cd, trig) THEN [i \in 1..Len(df.rows) |-> "steelblue"]
    ELSE [i \in 1..Len(df.rows) |->
            IF \/ i \in MatchIndex(df, "Country", ClickLocation(cd))
               \/ /\ out.status = "ok"
                  /\ out.fig_scatter.color[i] = "red"
            THEN "red" ELSE "lightgrey"]

ScatterColors(cd, trig) ==
    IF IsDefault(cd, trig) THEN [i \in 1..Len(df.rows) |-> "steelblue"]
    ELSE [i \in 1..Len(df.rows) |->
            IF i \in MatchIndex(df, "Country", ClickLocation(cd))
            THEN "red" ELSE "lightgrey"]

ScatterOpacity(cd, trig) ==
    IF IsDefault(cd, trig) THEN [i \in 1..Len(df.rows) |-> 6]
    ELSE [i \in 1..Len(df.rows) |->
            IF i \in MatchIndex(df, "Country", ClickLocation(cd))
            THEN 10 ELSE 3]

\* Mutation: the map is aggregated from the filtered rows.
MapFrameFiltered(cd, trig) ==
    IF IsDefault(cd, trig) THEN df ELSE DfFiltered(cd)

\* The frame the map is aggregated from: df, whatever the selection.
MapFrame(cd, trig) == df

\* The choropleth: per-country mean TEIS of the frame, uirevision.
BuildMap(d) == [series |-> GroupByCountry(d), uirevision |-> "constant"]

\* The bar trace (fatalities) and the line trace (TEIS) over the years.
BuildTrend(trend_df) ==
    [x |-> [k \in 1..Len(trend_df) |-> trend_df[k].Year],
     bars |-> [k \in 1..Len(trend_df) |-> trend_df[k].fatalities],
     line |-> [k \in 1..Len(trend_df) |-> trend_df[k].TEIS]]

\* The regression line first, then the points of the whole table.  (Under
\* "if trendline_trace:" an empty go.Scatter() is either added or left out;
\* both draw nothing, and overlay is then the empty trace.)
BuildScatter(scatter_colors, scatter_opacity) ==
    [overlay |-> trendline_trace,
     x |-> Column(df, "TEIS"),
     y |-> Column(df, "GDP_growth_pct"),
     color |-> scatter_colors,
     opacity |-> scatter_opacity,
     text |-> Column(df, "Country")]

\* The statements of update_dashboard that raise: the subscript of a payload
\* without "location", and the subscripts and group-by of a missing column.
Raises(cd, trig) ==
    \/ ~IsDefault(cd, trig) /\ ~cd.points[1].hasLocation
    \/ ~HasColumn(df, "Country")
    \/ ~HasColumn(df, "GDP_growth_pct")

EmptyFigures ==
    [fig_map |-> [series |-> <<>>, uirevision |-> ""],
     fig_trend |-> [x |-> <<>>, bars |-> <<>>, line |-> <<>>],
     fig_scatter |-> [overlay |-> [fitted |-> FALSE, name |-> "", color |-> "",
                                   dash |-> "", n |-> 0, sx |-> 0, sy |-> 0,
                                   sxx |-> 0, sxy |-> 0],
                      x |-> <<>>, y |-> <<>>, color |-> <<>>, opacity |-> <<>>,
                      text |-> <<>>],
     kpi_country |-> "", kpi_fatalities |-> <<>>,
     kpi_teis |-> [text |-> "", int |-> 0, dec |-> 0]]

\* No invocation yet.
NoOutput == [status |-> "none"] @@ EmptyFigures

\* The invocation raised (Dash answers the request with an error; no output
\* is updated).
Raised == [status |-> "raised"] @@ EmptyFigures

\* update_dashboard(clickData, n_clicks), with ctx.triggered_id = trig.
update_dashboard(cd, nc, trig) ==
    IF Raises(cd, trig) THEN Raised
    ELSE [status |-> "ok",
          fig_map |-> BuildMap(MapFrame(cd, trig)),
          fig_trend |-> BuildTrend(TrendDf(cd, trig)),
          fig_scatter |-> BuildScatter(ScatterColors(cd, trig), ScatterOpacity(cd, trig)),
          kpi_country |-> SelectedCountry(cd, trig),
          kpi_fatalities |-> FormatThousands(KpiFat(cd, trig)),
          kpi_teis |-> Format3f(KpiTeis(cd, trig))]

\* ------------------------------------------------------------------ startup
NoProbe == [set |-> FALSE, clickData |-> NoClick, triggered_id |-> "", out |-> NoOutput]

InitWith(n) ==
    /\ file \in {NoFile} \cup Tables(n)
    /\ pc = "load"
    /\ df = EmptyDataFrame
    /\ global_fatalities = 0
    /\ global_teisc = NaN
    /\ global_trend = <<>>
    /\ trendline_trace = EmptyFigures.fig_scatter.overlay
    /\ clickData = NoClick
    /\ n_clicks = 0
    /\ triggered_id = ""
    /\ out = NoOutput
    /\ probe = NoProbe

Init == InitWith(MaxRows)

\* try: df = pd.read_csv(...)  except: df = pd.DataFrame()
ReadCsv ==
    /\ pc = "load"
    /\ df' = IF file = NoFile THEN EmptyDataFrame ELSE file
    /\ pc' = "precompute"
    /\ UNCHANGED <<file, global_fatalities, global_teisc, global_trend,
                   trendline_trace, clickData, n_clicks, triggered_id, out, probe>>

\* The three module-level aggregates; a missing column raises KeyError,
\* which nothing catches: the process ends.
Precompute ==
    /\ pc = "precompute"
    /\ IF {"fatalities", "TEIS", "Year"} \subseteq df.columns
       THEN /\ global_fatalities' = SeriesSum(Column(df, "fatalities"))
            /\ global_teisc' = SeriesMean(Column(df, "TEIS"))
            /\ global_trend' = GroupByYear(df)
            /\ pc' = "fit"
       ELSE /\ pc' = "aborted"
            /\ UNCHANGED <<global_fatalities, global_teisc, global_trend>>
    /\ UNCHANGED <<file, df, trendline_trace, clickData, n_clicks,
                   triggered_id, out, probe>>

\* go.Scatter(): a trace with nothing set.
EmptyScatterTrace == EmptyFigures.fig_scatter.overlay

\* px.scatter(..., trendline="ols").data[1], restyled.  The least-squares
\* fit is held as the sums that determine it; px fits only with two points
\* or more, and builds no trace at all from a table without rows.
OlsTrace(d) ==
    LET xs == Column(d, "TEIS")
        ys == Column(d, "GDP_growth_pct")
        n == Len(d.rows)
        fit == n > 1
    IN  [fitted |-> fit, name |-> "Structural Drag (Global)", color |-> "red",
         dash |-> "dash", n |-> IF fit THEN n ELSE 0,
         sx |-> IF fit THEN SumSeq(xs) ELSE 0,
         sy |-> IF fit THEN SumSeq(ys) ELSE 0,
         sxx |-> IF fit THEN SumSeq([i \in 1..n |-> xs[i] * xs[i]]) ELSE 0,
         sxy |-> IF fit THEN SumSeq([i \in 1..n |-> xs[i] * ys[i]]) ELSE 0]

\* try: trendline_trace = ...  except: trendline_trace = go.Scatter()
FitTrendline ==
    /\ pc = "fit"
    /\ \E statsmodels \in BOOLEAN :
         trendline_trace' =
            IF statsmodels /\ HasColumn(df, "GDP_growth_pct") /\ df.rows # <<>>
            THEN OlsTrace(df) ELSE EmptyScatterTrace
    /\ pc' = "serve"
    /\ UNCHANGED <<file, df, global_fatalities, global_teisc, global_trend,
                   clickData, n_clicks, triggered_id, out, probe>>

\* ------------------------------------------------------------------ serving
\* One invocation of the callback with the given inputs; record says whether
\* the history keeps this invocation.
Invoke(cd, nc, trig, record) ==
    /\ clickData' = cd
    /\ n_clicks' = nc
    /\ triggered_id' = trig
    /\ out' = update_dashboard(cd, nc, trig)
    /\ probe' = IF record
                THEN [set |-> TRUE, clickData |-> cd, triggered_id |-> trig,
                      out |-> update_dashboard(cd, nc, trig)]
                ELSE probe
    /\ UNCHANGED <<pc, file, startup>>

\* The page is loaded: Dash invokes the callback with the layout's values.
PageLoad(record) ==
    /\ pc = "serve"
    /\ Invoke(NoClick, 0, "", record)

\* A click on the map.
MapClick(payload, record) ==
    /\ pc = "serve"
    /\ out.status # "none"
    /\ Invoke(payload, n_clicks, "map-chart", record)

\* A press of the reset button; clickData keeps the last click.
ResetPress(record) ==
    /\ pc = "serve"
    /\ out.status # "none"
    /\ n_clicks < MaxClicks
    /\ Invoke(clickData, n_clicks + 1, "btn-reset", record)

Next ==
    \/ ReadCsv
    \/ Precompute
    \/ FitTrendline
    \/ PageLoad(FALSE)
    \/ \E p \in ClickPayloads : MapClick(p, FALSE)
    \/ ResetPress(FALSE)

Spec == Init /\ [][Next]_vars

\* The same program, with one earlier invocation remembered: any invocation
\* may be the one kept in probe, so that every pair of invocations of a run
\* is compared.  The csv is unreadable or has the five columns of a Record.
InitHistory == InitWith(MaxHistoryRows) /\ file.columns \in {AllColumns, NoFile.columns}

NextHistory ==
    \/ ReadCsv
    \/ Precompute
    \/ FitTrendline
    \/ \E record \in BOOLEAN : PageLoad(record)
    \/ \E p \in ClickPayloads, record \in BOOLEAN : MapClick(p, record)
    \/ \E record \in BOOLEAN : ResetPress(record)

SpecHistory == InitHistory /\ [][NextHistory]_vars

\* =========================================================== the properties
\* What the properties are stated with.

\* The Dataset has the five columns of a Record.
WellFormed == df.columns = AllColumns

\* The last invocation, if any, took the default branch / the filtered branch
\* with country c.
Invoked == pc = "serve" /\ out.status # "none"
InGlobal == Invoked /\ (~clickData.present \/ triggered_id = "btn-reset")
InFiltered ==
    /\ Invoked
    /\ clickData.present
    /\ triggered_id # "btn-reset"
    /\ clickData.points[1].hasLocation
Selected == clickData.points[1].location

RowsOf(c) == { i \in 1..Len(df.rows) : df.rows[i].Country = c }
RowsOfIn(c, y) == { i \in RowsOf(c) : df.rows[i].Year = y }
AllRows == 1..Len(df.rows)

\* The sum of a column over a set of row positions.
RECURSIVE SumOver(_, _)
SumOver(I, col) ==
    IF I = {} THEN 0
    ELSE LET i == CHOOSE j \in I : TRUE
         IN  df.rows[i][col] + SumOver(I \ {i}, col)

\* m is the arithmetic mean of TEIS over the rows I.
IsMeanOver(m, I) ==
    IF I = {} THEN m.nan
    ELSE ~m.nan /\ m.den > 0 /\ m.num * Cardinality(I) = SumOver(I, "TEIS") * m.den

\* The number a thousands-separated label reads as.
RECURSIVE LabelNumber(_)
LabelNumber(groups) ==
    IF groups = <<>> THEN 0
    ELSE LabelNumber(SubSeq(groups, 1, Len(groups) - 1)) * 1000 + groups[Len(groups)]

\* The label is a well-formed thousands-separated rendering of n.
ShowsNumber(label, n) ==
    /\ label # <<>>
    /\ \A k \in 1..Len(label) : label[k] >= 0 /\ label[k] < 1000
    /\ Len(label) > 1 => label[1] > 0
    /\ LabelNumber(label) = n

\* The label is the mean of TEIS over the rows I to three decimals: within
\* half a thousandth of it ("nan" when there is no row).
ShowsMeanOver(label, I) ==
    IF I = {} THEN label.text = "nan"
    ELSE /\ label.text = "number"
         /\ label.dec >= 0 /\ label.dec < 1000
         /\ LET v == label.int * 1000 + label.dec
                d == v * Cardinality(I) - SumOver(I, "TEIS")
            IN  2 * d <= Cardinality(I) /\ -2 * d <= Cardinality(I)

\* trend is the per-Year roll-up of the rows I: one entry per distinct Year,
\* ascending, mean TEIS and summed fatalities of that year's rows of I.
IsYearlyOf(trend, I) ==
    LET ys == { df.rows[i].Year : i \in I }
    IN  /\ Len(trend.x) = Cardinality(ys)
        /\ Len(trend.bars) = Len(trend.x)
        /\ Len(trend.line) = Len(trend.x)
        /\ { trend.x[k] : k \in 1..Len(trend.x) } = ys
        /\ \A k \in 1..Len(trend.x) - 1 : trend.x[k] < trend.x[k + 1]
        /\ \A k \in 1..Len(trend.x) :
             LET g == { i \in I : df.rows[i].Year = trend.x[k] }
             IN  /\ trend.bars[k] = SumOver(g, "fatalities")
                 /\ IsMeanOver(trend.line[k], g)

Highlighted(i) == out.fig_scatter.color[i] = "red" /\ out.fig_scatter.opacity[i] = 10
Dimmed(i) == out.fig_scatter.color[i] = "lightgrey" /\ out.fig_scatter.opacity[i] = 3
Neutral(i) == out.fig_scatter.color[i] = "steelblue" /\ out.fig_scatter.opacity[i] = 6
PointsAreRows ==
    /\ Len(out.fig_scatter.x) = Len(df.rows)
    /\ Len(out.fig_scatter.y) = Len(df.rows)
    /\ Len(out.fig_scatter.color) = Len(df.rows)
    /\ Len(out.fig_scatter.opacity) = Len(df.rows)
    /\ \A i \in AllRows : /\ out.fig_scatter.x[i] = df.rows[i].TEIS
                          /\ out.fig_scatter.y[i] = df.rows[i].GDP_growth_pct

\* ----------------------------------------------------------------------- C1
\* C1, as stated: when reading the source table fails, startup does not
\* abort (the aggregates are computed on the empty Dataset and the system
\* goes on to serve).
C1_LoadFailureDoesNotAbort == file = NoFile => pc # "aborted"

\* ----------------------------------------------------------------------- C2
\* C2: after a reset press, whatever clicks and resets came before and
\* although the stale click payload is still passed, the handler returns
\* exactly what it returns with no click data at all (the GLOBAL ViewModel).
C2_ResetReturnsGlobal ==
    (pc = "serve" /\ triggered_id = "btn-reset" /\ WellFormed) =>
        /\ out.status = "ok"
        /\ out = update_dashboard(NoClick, 0, "")
        /\ out.kpi_country = "Global View"

C2_Witness ==
    /\ pc = "serve" /\ triggered_id = "btn-reset" /\ WellFormed
    /\ clickData.present /\ clickData.points[1].hasLocation
    /\ RowsOf(Selected) # {}
    /\ RowsOf(Selected) # AllRows
    /\ out.status = "ok"

\* ----------------------------------------------------------------------- C3
\* C3: in the FILTERED state with country c, the scatter has one point per
\* row of D at that row's position; the points with the highlight style
\* (red, opacity 1.0) are exactly the rows whose Country is c, so there are
\* as many of them as such rows; every other point has the dimmed style
\* (lightgrey, opacity 0.3).
C3_HighlightCompleteness ==
    (InFiltered /\ WellFormed) =>
        /\ out.status = "ok"
        /\ PointsAreRows
        /\ Cardinality({ i \in AllRows : Highlighted(i) }) = Cardinality(RowsOf(Selected))
        /\ \A i \in AllRows : Highlighted(i) => df.rows[i].Country = Selected
        /\ \A i \in AllRows : ~Highlighted(i) => Dimmed(i)

C3_Witness ==
    /\ InFiltered /\ WellFormed /\ out.status = "ok"
    /\ RowsOf(Selected) # {}
    /\ RowsOf(Selected) # AllRows

\* ----------------------------------------------------------------------- C4
\* C4: whenever the click data is absent or the trigger is the reset button,
\* the label is "Global View", the fatalities KPI shows the sum of fatalities
\* over the whole Dataset, the TEIS KPI shows the mean of TEIS over the whole
\* Dataset, the trend series is GlobalAggregate.yearly, and every scatter
\* point is steelblue at opacity 0.6.
C4_GlobalView ==
    (InGlobal /\ WellFormed) =>
        /\ out.status = "ok"
        /\ out.kpi_country = "Global View"
        /\ ShowsNumber(out.kpi_fatalities, SumOver(AllRows, "fatalities"))
        /\ ShowsMeanOver(out.kpi_teis, AllRows)
        /\ out.fig_trend = BuildTrend(global_trend)
        /\ IsYearlyOf(out.fig_trend, AllRows)
        /\ PointsAreRows
        /\ \A i \in AllRows : Neutral(i)

C4_Witness ==
    /\ InGlobal /\ WellFormed /\ out.status = "ok"
    /\ triggered_id = "btn-reset" /\ clickData.present
    /\ Len(df.rows) >= 2
    /\ df.rows[1].Year > df.rows[2].Year
    /\ df.rows[1].TEIS # df.rows[2].TEIS

\* ----------------------------------------------------------------------- C5
\* A map click, not a reset, whose country matches no row.
SelectionMiss == InFiltered /\ RowsOf(Selected) = {}

\* C5, as stated: on a selection miss the trend series is
\* GlobalAggregate.yearly and the fatalities KPI and the TEIS KPI are both
\* zero-valued ("0" and "0.000").
C5_MissZeroKpis ==
    (SelectionMiss /\ WellFormed) =>
        /\ out.status = "ok"
        /\ out.fig_trend = BuildTrend(global_trend)
        /\ out.kpi_fatalities = <<0>>
        /\ out.kpi_teis = [text |-> "number", int |-> 0, dec |-> 0]

\* C5, amended: on a selection miss the trend series is
\* GlobalAggregate.yearly, the fatalities KPI is zero-valued ("0") and the
\* TEIS KPI is undefined: the mean of no rows, NaN, shown as "nan".
C5_MissZeroAndNaN ==
    (SelectionMiss /\ WellFormed) =>
        /\ out.status = "ok"
        /\ out.fig_trend = BuildTrend(global_trend)
        /\ IsYearlyOf(out.fig_trend, AllRows)
        /\ out.kpi_fatalities = <<0>>
        /\ out.kpi_teis.text = "nan"

C5_Witness ==
    /\ SelectionMiss /\ WellFormed /\ out.status = "ok"
    /\ Len(df.rows) >= 2
    /\ out.fig_trend.x # <<>>

\* ----------------------------------------------------------------------- C6
\* C6, as stated: every invocation returns a complete ViewModel and never
\* raises, and a click payload without a valid location yields the GLOBAL
\* view.
C6_HandlerNeverRaises ==
    Invoked =>
        /\ out.status = "ok"
        /\ (clickData.present /\ ~clickData.points[1].hasLocation)
              => out.kpi_country = "Global View"

C8_SameSelectionSameView ==
    (Invoked /\ probe.set /\ probe.clickData = clickData
             /\ probe.triggered_id = triggered_id) => probe.out = out

C8_Stateless ==
    /\ []C8_SameSelectionSameView
    /\ [][pc = "serve" => startup' = startup]_vars

C8_Witness ==
    /\ Invoked /\ probe.set /\ out.status = "ok"
    /\ probe.clickData = clickData /\ probe.triggered_id = triggered_id
    /\ InFiltered /\ RowsOf(Selected) # {}
    /\ n_clicks >= 1

\* ----------------------------------------------------------------------- C9
\* The Dataset and selection of the worked example.
ExampleRows ==
    << [Country |-> "A", Year |-> 2020, TEIS |-> 500, fatalities |-> 10,
        GDP_growth_pct |-> 20],
       [Country |-> "B", Year |-> 2020, TEIS |-> 900, fatalities |-> 100,
        GDP_growth_pct |-> -10] >>
InExample == InFiltered /\ WellFormed /\ df.rows = ExampleRows /\ Selected = "B"

\* C9: in FILTERED(c) with a row matching c, the fatalities KPI shows the
\* sum of fatalities over the rows of c, the TEIS KPI shows the mean of TEIS
\* over them, and the trend series has one entry per distinct Year of those
\* rows (their mean TEIS, their summed fatalities) and none for a Year only
\* other countries have; in the worked example, selecting B gives "100",
\* "0.900" and the trend [(2020, 0.9, 100)].
C9_FilteredAggregates ==
    /\ (InFiltered /\ WellFormed /\ RowsOf(Selected) # {}) =>
          /\ out.status = "ok"
          /\ out.kpi_country = Selected
          /\ ShowsNumber(out.kpi_fatalities, SumOver(RowsOf(Selected), "fatalities"))
          /\ ShowsMeanOver(out.kpi_teis, RowsOf(Selected))
          /\ IsYearlyOf(out.fig_trend, RowsOf(Selected))
    /\ InExample =>
          /\ out.kpi_fatalities = <<100>>
          /\ out.kpi_teis = [text |-> "number", int |-> 0, dec |-> 900]
          /\ out.fig_trend = [x |-> <<2020>>, bars |-> <<100>>,
                              line |-> <<[nan |-> FALSE, num |-> 900, den |-> 1]>>]
          /\ Highlighted(2) /\ Dimmed(1)

C9_Witness == InExample /\ out.status = "ok"

\* ---------------------------------------------------------------------- C10
TrendOf(t) == BuildTrend(t)

\* C10: once the aggregates are computed, GlobalAggregate.yearly has exactly
\* one entry per distinct Year of D, in ascending Year order, each with the
\* summed fatalities of that year's rows; the entries' fatalities add up to
\* total_fatalities, which is the sum of fatalities over all rows of D.
C10_GlobalYearly ==
    pc \in {"fit", "serve"} =>
        /\ IsYearlyOf(TrendOf(global_trend), AllRows)
        /\ global_fatalities = SumOver(AllRows, "fatalities")
        /\ SumSeq(TrendOf(global_trend).bars) = global_fatalities

C10_Witness ==
    /\ pc \in {"fit", "serve"}
    /\ Len(df.rows) >= 2
    /\ df.rows[1].Year > df.rows[2].Year
    /\ df.rows[1].fatalities # df.rows[2].fatalities

====
